---- MODULE Spec2Model ----
(***************************************************************************)
(* A model of zfs2s3: the snapshot catalog (src/src/zfs.rs), the retention *)
(* policy, the reconciler (src/src/lib.rs) and the two scheduled loops     *)
(* (src/src/main.rs).                                                      *)
(*                                                                         *)
(* A name is a sequence of tokens: the separators "/" and "@" and the      *)
(* backup markers are tokens of their own, so that prefix tests, substring *)
(* tests for the marker and the split on "/" are computed on the name.     *)
(***************************************************************************)
EXTENDS Integers, Sequences, FiniteSets, TLC

VARIABLES
    local,          \* the snapshots ZFS holds, in the order `zfs list` prints them
    remote,         \* the bucket: key |-> name of the snapshot it was streamed from
    now,            \* wall clock, in seconds
    config,         \* the loaded Config: keep_min, keep_duration, exclude, volumes,
                    \* and the periods of backup.schedule and backup.incremental
    op_lock,        \* holder of the operation mutex: "none", "backup" or "cleanup"
    cancelled,      \* the CancellationToken
    pc,             \* position of each loop task
    volumes,        \* each loop's own VolumeSnapshotMap
    snapshot_type,  \* the mode the backup loop chose for its tick
    before,         \* the cleanup catalog as it was when retention began
    destroyed,      \* names `zfs destroy` removed in the latest retention run
    retention,      \* outcome of the latest apply_retention_policy: "none", "ok", "err"
    pushed,         \* names uploaded by the latest reconcile, in upload order
    deleted,        \* key |-> source name of the objects the latest reconcile deleted
    synced,         \* outcome of the latest reconcile: "none", "ok", "errA", "errB"
    unfinished,     \* keys whose multipart upload the latest reconcile started
                    \* and neither completed nor aborted
    file,           \* the text of the configuration file, as a TOML table:
                    \* key |-> value
    stdout,         \* lines handed to list_snapshots' parser on their own
    listed,         \* the snapshots it made of them
    main,           \* the handle main awaits, or what main returned: "ok", "err"
    duration        \* the two waits the backup loop computed for its sleep

vars == <<local, remote, now, config, op_lock, cancelled, pc, volumes,
          snapshot_type, before, destroyed, retention, pushed, deleted, synced,
          unfinished, file, stdout, listed, main, duration>>

-----------------------------------------------------------------------------
(* Bounds of the model *)

MaxLen == 3          \* snapshots a volume holds when the cleanup loop is started
MaxAge == 3          \* the creation times of those snapshots are 1..MaxAge
MaxHeld == 2         \* snapshots a volume holds when the backup loop is started
MaxHeldAge == 1      \* the creation times of those snapshots are 1..MaxHeldAge
MaxTime == 1         \* last second of the daemon's clock, which starts at 0
MaxKeepMin == 2      \* largest cleanup.keep_min tried
MaxKeepDuration == 2 \* largest cleanup.keep_duration tried, in seconds
MaxLines == 2        \* lines of a listing parsed on its own

-----------------------------------------------------------------------------
(* Names *)

SUFFIX_SEPARATOR == "@"
BACKUP_SUFFIX == "auto-backup-"
BACKUP_SUFFIX_INCREMENTAL == "auto-backup-incremental-"

PATH_SEPARATOR == "/"

\* format_iso_8601: one token per second of the clock
format_iso_8601(t) == ToString(t)

\* the zvols `zfs list -t volume` prints
VolA == <<"tank", "/", "vm", "/", "a">>
VolB == <<"tank", "/", "vm", "/", "b">>
VolDb == <<"tank", "/", "db">>
VolCtA == <<"tank", "/", "ct", "/", "a">>
VolCtAb == <<"tank", "/", "ct", "/", "a", "b">>

list_volumes == {VolA, VolB, VolDb, VolCtA, VolCtAb}

\* backup.volumes = ["tank/vm/*"] and backup.volumes = ["tank/vm/a"]
GlobVm == {<<"tank", "/", "vm", "/", "*">>}
GlobA == {<<"tank", "/", "vm", "/", "a">>}

\* backup.volumes = ["tank/*/a", "tank/ct/*"]
GlobKeys == {<<"tank", "/", "*", "/", "a">>, <<"tank", "/", "ct", "/", "*">>}

\* cleanup.exclude = ["tank/vm/*@auto-backup-<second 1>"]
ExcludeGlobs == {<<"tank", "/", "vm", "/", "*", "@", BACKUP_SUFFIX, format_iso_8601(1)>>}

\* a snapshot somebody took by hand on a zvol the agent does not back up
DbManual == [name |-> VolDb \o <<"@", "manual">>, creation |-> 0]

\* an object in the bucket that no snapshot of this host produced
OrphanKey == <<"orphan-key">>

NoSource == <<>>

SnapshotName(volume, suffix, t) ==
    volume \o <<SUFFIX_SEPARATOR, suffix, format_iso_8601(t)>>

Snap(volume, suffix, t) ==
    [name |-> SnapshotName(volume, suffix, t), creation |-> t]

\* str::starts_with
StartsWith(s, prefix) ==
    /\ Len(prefix) <= Len(s)
    /\ SubSeq(s, 1, Len(prefix)) = prefix

\* str::contains for a marker token
Contains(s, marker) == \E i \in 1..Len(s) : s[i] = marker

is_incremental_snapshot(snapshot_name) ==
    Contains(snapshot_name, BACKUP_SUFFIX_INCREMENTAL)

\* a slip: the name is cut behind its first "/"
to_key_after_pool(name) ==
    LET seps == {i \in 1..Len(name) : name[i] = PATH_SEPARATOR}
        first == IF seps = {} THEN 0
                 ELSE CHOOSE i \in seps : \A j \in seps : i <= j
    IN  SubSeq(name, first + 1, Len(name))

\* Snapshot::to_key: the last piece of name.split('/')
to_key(name) ==
    LET seps == {i \in 1..Len(name) : name[i] = PATH_SEPARATOR}
        last == IF seps = {} THEN 0
                ELSE CHOOSE i \in seps : \A j \in seps : j <= i
    IN  SubSeq(name, last + 1, Len(name))

\* fast_glob::glob_match: "*" matches any run of tokens without a "/"
RECURSIVE glob_match(_, _)
glob_match(pattern, path) ==
    IF pattern = <<>> THEN path = <<>>
    ELSE IF Head(pattern) = "*"
         THEN \/ glob_match(Tail(pattern), path)
              \/ /\ path # <<>>
                 /\ Head(path) # PATH_SEPARATOR
                 /\ glob_match(pattern, Tail(path))
         ELSE /\ path # <<>>
              /\ Head(path) = Head(pattern)
              /\ glob_match(Tail(pattern), Tail(path))

-----------------------------------------------------------------------------
(* Sequences *)

Range(s) == {s[i] : i \in 1..Len(s)}

Names(s) == {s[i].name : i \in 1..Len(s)}

\* insert x behind every element that is not older than it: a stable
\* descending sort, as slice::sort_by is stable
RECURSIVE InsertDesc(_, _)
InsertDesc(sorted, x) ==
    IF sorted = <<>> THEN <<x>>
    ELSE IF Head(sorted).creation >= x.creation
         THEN <<Head(sorted)>> \o InsertDesc(Tail(sorted), x)
         ELSE <<x>> \o sorted

RECURSIVE SortDesc(_)
SortDesc(s) ==
    IF s = <<>> THEN <<>>
    ELSE InsertDesc(SortDesc(SubSeq(s, 1, Len(s) - 1)), s[Len(s)])

-----------------------------------------------------------------------------
(* The listing: list_snapshots and Snapshot::try_from of src/src/zfs.rs.   *)
(* A line is a sequence of tokens, as a name is; a number is one token,    *)
(* its decimal text.                                                       *)

WHITESPACE == {"\t", " "}

\* the largest and the first too large decimal text of an i64
I64_MAX == "9223372036854775807"
I64_OVERFLOW == "9223372036854775808"

\* the seconds the model's clocks and creation times reach
Seconds == 0..(MaxAge + MaxHeldAge + MaxTime + MaxKeepDuration + 2)

\* `zfs list -H -o name,creation -t snapshot -p`: one line per snapshot, the
\* name, a tab, the creation time in seconds
zfs_list(host) ==
    [i \in 1..Len(host) |->
        host[i].name \o <<"\t", ToString(host[i].creation)>>]

\* str::split_whitespace: the runs of tokens between white space
RECURSIVE split_whitespace(_)
split_whitespace(line) ==
    IF line = <<>> THEN <<>>
    ELSE IF Head(line) \in WHITESPACE THEN split_whitespace(Tail(line))
    ELSE LET ends == {i \in 1..Len(line) :
                        i = Len(line) \/ line[i + 1] \in WHITESPACE}
             n == CHOOSE i \in ends : \A j \in ends : i <= j
         IN  <<SubSeq(line, 1, n)>>
                \o split_whitespace(SubSeq(line, n + 1, Len(line)))

\* str::parse::<i64> followed by DateTime::from_timestamp_secs: the seconds
\* of the field, or nothing. The text has an optional sign and digits, and
\* the number fits an i64 and chrono's range of dates, which I64_MAX does
\* not.
timestamp(field) ==
    LET digits == field[Len(field)]
        value == {n \in Seconds : ToString(n) = digits}
    IN  IF Len(field) = 1 THEN value
        ELSE IF Len(field) = 2 /\ field[1] = "+" THEN value
        ELSE IF Len(field) = 2 /\ field[1] = "-" THEN {0 - n : n \in value}
        ELSE {}

\* a slip: what follows the second field is ignored
try_from_two_leading(line) ==
    LET parts == split_whitespace(line)
    IN  IF Len(parts) < 2 THEN {}
        ELSE {[name |-> parts[1], creation |-> t] : t \in timestamp(parts[2])}

\* Snapshot::try_from: the snapshot of the line, or nothing on an error
try_from(line) ==
    LET parts == split_whitespace(line)
    IN  IF Len(parts) # 2 THEN {}
        ELSE {[name |-> parts[1], creation |-> t] : t \in timestamp(parts[2])}

\* stdout.lines().filter_map(|line| Snapshot::try_from(line).ok()).collect()
RECURSIVE list_snapshots(_)
list_snapshots(lines) ==
    IF lines = <<>> THEN <<>>
    ELSE LET parsed == try_from(Head(lines))
         IN  (IF parsed = {} THEN <<>> ELSE <<CHOOSE s \in parsed : TRUE>>)
                \o list_snapshots(Tail(lines))

-----------------------------------------------------------------------------
(* The catalog: VolumeSnapshotMap *)

\* a slip: the prefix is tested without the separator behind the volume
map_snapshot_to_volume_by_prefix(volume, snapshots) ==
    SortDesc(SelectSeq(snapshots, LAMBDA s : StartsWith(s.name, volume)))

\* a slip: the snapshots of the volume are left in the order of the listing
map_snapshot_to_volume_unsorted(volume, snapshots) ==
    SelectSeq(snapshots,
        LAMBDA s : StartsWith(s.name, volume \o <<SUFFIX_SEPARATOR>>))

\* VolumeSnapshotMap::map_snapshot_to_volume
map_snapshot_to_volume(volume, snapshots) ==
    SortDesc(SelectSeq(snapshots,
        LAMBDA s : StartsWith(s.name, volume \o <<SUFFIX_SEPARATOR>>)))

\* VolumeSnapshotMap::new, once both listings succeeded
new(snapshots) ==
    [v \in list_volumes |-> map_snapshot_to_volume(v, snapshots)]

\* VolumeSnapshotMap::keep_volume_to_backup
keep_volume_to_backup(map, cfg) ==
    LET to_backup == {v \in DOMAIN map :
                        \E pattern \in cfg.volumes : glob_match(pattern, v)}
    IN  [v \in to_backup |-> map[v]]

\* VolumeSnapshotMap::refresh, once the listing succeeded
refresh(map, snapshots) ==
    [v \in DOMAIN map |-> map_snapshot_to_volume(v, snapshots)]

\* every snapshot of the catalog
CatalogSnapshots(map) == UNION {Range(map[v]) : v \in DOMAIN map}

CatalogNames(map) == {s.name : s \in CatalogSnapshots(map)}

CatalogKeys(map) == {to_key(s.name) : s \in CatalogSnapshots(map)}

-----------------------------------------------------------------------------
(* Retention: VolumeSnapshotMap::apply_retention_policy, per volume.       *)
(* Indices are the code's, counted from 0: element i is snapshots[i + 1].  *)

IsFull(s) == ~Contains(s.name, BACKUP_SUFFIX_INCREMENTAL)

FullIndices(snapshots) == {i \in 0..(Len(snapshots) - 1) : IsFull(snapshots[i + 1])}

\* a slip: without such a full the truncation starts at the newest snapshot
nth_full_or_first(snapshots, keep_min) ==
    LET hits == {i \in FullIndices(snapshots) :
                    Cardinality({j \in FullIndices(snapshots) : j < i}) = keep_min}
    IN  IF hits = {} THEN 0 ELSE CHOOSE i \in hits : TRUE

\* .filter(full).nth(keep_min): the index of the full with keep_min fulls in
\* front of it, or -1 for None
nth_full(snapshots, keep_min) ==
    LET hits == {i \in FullIndices(snapshots) :
                    Cardinality({j \in FullIndices(snapshots) : j < i}) = keep_min}
    IN  IF hits = {} THEN -1 ELSE CHOOSE i \in hits : TRUE

\* CleanupPolicy::keep_duration
keep_duration(clock, cfg) == clock - cfg.keep_duration

\* a slip: a snapshot created at the cutoff counts as older than it
time_cutoff_index_inclusive(snapshots, start, timestamp_cutoff) ==
    LET old == {i \in start..(Len(snapshots) - 1) :
                    snapshots[i + 1].creation <= timestamp_cutoff}
    IN  IF old = {} THEN Len(snapshots)
        ELSE CHOOSE i \in old : \A j \in old : i <= j

\* snapshots[start..].position(creation < cutoff) + start, or len
time_cutoff_index(snapshots, start, timestamp_cutoff) ==
    LET old == {i \in start..(Len(snapshots) - 1) :
                    snapshots[i + 1].creation < timestamp_cutoff}
    IN  IF old = {} THEN Len(snapshots)
        ELSE CHOOSE i \in old : \A j \in old : i <= j

\* a slip: the last kept full itself is dropped
cutoff_index_dropping_full(snapshots, time_cutoff) ==
    LET fulls == {i \in FullIndices(snapshots) : i < time_cutoff}
    IN  IF fulls = {} THEN time_cutoff
        ELSE CHOOSE i \in fulls : \A j \in fulls : j <= i

\* snapshots[..time_cutoff].rposition(full) + 1, or time_cutoff
cutoff_index(snapshots, time_cutoff) ==
    LET fulls == {i \in FullIndices(snapshots) : i < time_cutoff}
    IN  IF fulls = {} THEN time_cutoff
        ELSE (CHOOSE i \in fulls : \A j \in fulls : j <= i) + 1

\* the body of the loop over the volumes: what the sequence is truncated to
truncated(snapshots, keep_min, timestamp_cutoff) ==
    LET start == nth_full(snapshots, keep_min)
    IN  IF start = -1 THEN snapshots
        ELSE SubSeq(snapshots, 1,
                    cutoff_index(snapshots,
                        time_cutoff_index(snapshots, start, timestamp_cutoff)))

\* the catalog after the loop over the volumes
retained(map, clock, cfg) ==
    [v \in DOMAIN map |->
        truncated(map[v], cfg.keep_min, keep_duration(clock, cfg))]

\* zfs::sync_snapshots: the listed snapshots found in no volume of the
\* catalog, in listing order: each is handed to delete_snapshot
not_found(snapshots, map) ==
    SelectSeq(snapshots, LAMBDA s : s.name \notin CatalogNames(map))

\* the listing without the snapshots of the given names
Without(snapshots, names) ==
    SelectSeq(snapshots, LAMBDA s : s.name \notin names)

-----------------------------------------------------------------------------
(* The reconciler: sync_snapshots of src/src/lib.rs *)

\* the orders in which a HashMap may hand out the volumes
Orders(S) ==
    {o \in [1..Cardinality(S) -> S] : \A i, j \in 1..Cardinality(S) :
                                            o[i] = o[j] => i = j}

\* a slip: the listing is not consulted, every snapshot is taken as missing
missing_of_all(map, volume, s3_objects) ==
    [n \in 1..Len(map[volume]) |-> [volume |-> volume, i |-> n - 1]]

\* the inner loop of sync_missing_snapshots over one volume: the indices, in
\* iteration order, of the snapshots whose key the listing does not hold
missing_of(map, volume, s3_objects) ==
    SelectSeq([n \in 1..Len(map[volume]) |-> [volume |-> volume, i |-> n - 1]],
              LAMBDA e : to_key(map[volume][e.i + 1].name) \notin s3_objects)

\* both loops of sync_missing_snapshots: every upload it sets out to do
RECURSIVE missing(_, _, _)
missing(map, order, s3_objects) ==
    IF order = <<>> THEN <<>>
    ELSE missing_of(map, Head(order), s3_objects)
            \o missing(map, Tail(order), s3_objects)

\* volume.1[i..]
slice_from(map, e) == SubSeq(map[e.volume], e.i + 1, Len(map[e.volume]))

\* upload_single_full_snapshot_to_s3 returns an error before streaming
full_refused(snapshots) ==
    \/ Len(snapshots) = 0
    \/ Contains(snapshots[1].name, BACKUP_SUFFIX_INCREMENTAL)

\* upload_single_incremental_snapshot_to_s3 returns an error before streaming
incremental_refused(snapshots) ==
    \/ Len(snapshots) < 2
    \/ ~Contains(snapshots[1].name, BACKUP_SUFFIX_INCREMENTAL)

\* the dispatch of sync_missing_snapshots on one missing snapshot
refused(map, e) ==
    IF is_incremental_snapshot(map[e.volume][e.i + 1].name)
    THEN incremental_refused(slice_from(map, e))
    ELSE full_refused(slice_from(map, e))

\* a slip: every missing snapshot is sent as a full stream
upload_as_full(map, e) ==
    LET snapshots == slice_from(map, e)
    IN  [to |-> snapshots[1], from |-> NoSource,
         mode |-> "full", key |-> to_key(snapshots[1].name)]

\* a slip: the incremental stream starts at the oldest snapshot of the slice
upload_from_oldest(map, e) ==
    LET snapshots == slice_from(map, e)
    IN  IF is_incremental_snapshot(snapshots[1].name)
        THEN [to |-> snapshots[1], from |-> snapshots[Len(snapshots)].name,
              mode |-> "incremental", key |-> to_key(snapshots[1].name)]
        ELSE [to |-> snapshots[1], from |-> NoSource,
              mode |-> "full", key |-> to_key(snapshots[1].name)]

\* what a completed upload of that snapshot streamed, and to which key
upload(map, e) ==
    LET snapshots == slice_from(map, e)
    IN  IF is_incremental_snapshot(snapshots[1].name)
        THEN [to |-> snapshots[1], from |-> snapshots[2].name,
              mode |-> "incremental", key |-> to_key(snapshots[1].name)]
        ELSE [to |-> snapshots[1], from |-> NoSource,
              mode |-> "full", key |-> to_key(snapshots[1].name)]

\* the bucket after the uploads ups, in order
put_all(bucket, ups) ==
    LET keys == {ups[n].key : n \in 1..Len(ups)}
        last(k) == CHOOSE n \in 1..Len(ups) :
                      /\ ups[n].key = k
                      /\ \A m \in 1..Len(ups) : ups[m].key = k => m <= n
    IN  [k \in DOMAIN bucket \cup keys |->
            IF k \in keys THEN ups[last(k)].to.name ELSE bucket[k]]

\* the numbers of uploads Phase A may complete: it stops at the first upload
\* that is refused, and the stream or the store may fail any other one
completed(map, todo) ==
    {k \in 0..Len(todo) : \A n \in 1..k : ~refused(map, todo[n])}

\* the multipart uploads a failed upload of that snapshot may leave in the
\* store. A guard that refuses, a stream that does not start and a failed
\* put_multipart leave none; a failed read, part or finish returns through
\* `?` with the upload started, and no abort is requested
upload_stream_failed(map, e) ==
    IF refused(map, e) THEN {{}}
    ELSE {{}, {to_key(map[e.volume][e.i + 1].name)}}

\* a slip: every listed key is taken to have a local snapshot
orphans_none(bucket, map) == {}

\* a slip: the listed keys are compared with the names, not with the keys
orphans_by_name(bucket, map) ==
    {object \in DOMAIN bucket :
        ~\E s \in CatalogNames(map) : s = object}

\* sync_deleted_snapshots: the listed keys equal to no local snapshot's key
orphans(bucket, map) ==
    {object \in DOMAIN bucket :
        ~\E s \in CatalogKeys(map) : s = object}

Restrict(f, S) == [k \in S |-> f[k]]

EmptyBucket == [k \in {} |-> NoSource]

\* a slip: after an upload failed, Phase B is run before the error is returned
ReconcileGoingOn(p) ==
    LET map == volumes[p] IN
    \E order \in Orders(DOMAIN map) :
      LET todo == missing(map, order, DOMAIN remote) IN
      \E k \in completed(map, todo) :
        LET ups == [n \in 1..k |-> upload(map, todo[n])]
            after == put_all(remote, ups)
            gone == orphans(after, map)
        IN  /\ pushed' = ups
            /\ deleted' = Restrict(after, gone)
            /\ remote' = Restrict(after, DOMAIN after \ gone)
            /\ synced' = IF k < Len(todo) THEN "errA" ELSE "ok"
            /\ unfinished' = {}

\* sync_snapshots called by loop p on its catalog
Reconcile(p) ==
    LET map == volumes[p] IN
    \/ \* s3.list_objects fails in Phase A
       /\ pushed' = <<>>
       /\ deleted' = EmptyBucket
       /\ remote' = remote
       /\ synced' = "errA"
       /\ unfinished' = {}
    \/ \E order \in Orders(DOMAIN map) :
         LET todo == missing(map, order, DOMAIN remote) IN
         \E k \in completed(map, todo) :
           LET ups == [n \in 1..k |-> upload(map, todo[n])]
               after == put_all(remote, ups)
           IN  /\ pushed' = ups
               /\ \/ \* an upload fails: Phase B is not run
                     /\ k < Len(todo)
                     /\ deleted' = EmptyBucket
                     /\ remote' = after
                     /\ synced' = "errA"
                     /\ unfinished' \in upload_stream_failed(map, todo[k + 1])
                  \/ \* Phase A is through; Phase B deletes up to a failure
                     /\ k = Len(todo)
                     /\ \E gone \in SUBSET orphans(after, map) :
                          /\ deleted' = Restrict(after, gone)
                          /\ remote' = Restrict(after, DOMAIN after \ gone)
                          /\ synced' = IF gone = orphans(after, map)
                                       THEN "ok" ELSE "errB"
                          /\ unfinished' = {}
                  \/ \* s3.list_objects fails in Phase B
                     /\ k = Len(todo)
                     /\ deleted' = EmptyBucket
                     /\ remote' = after
                     /\ synced' = "errB"
                     /\ unfinished' = {}

-----------------------------------------------------------------------------
(* The configuration: Config::try_from of src/src/config.rs. The file is   *)
(* a table from keys to values; a cron expression is the sequence of its   *)
(* fields and a duration the sequence of its number and its unit.          *)

EverySecond == <<"*", "*", "*", "*", "*", "*">>
EveryOther == <<"*/2", "*", "*", "*", "*", "*">>
EveryOtherOfAnyYear == <<"*/2", "*", "*", "*", "*", "*", "*">>

\* what a field of a cron expression may be
CronFields == {"*", "*/2", "0"}

\* the keys serde requires in a table that is there
RequiredBackup == {"backup_schedule"}
RequiredCleanup == {"cleanup_schedule", "cleanup_keep_min", "cleanup_keep_duration"}
RequiredS3 == {"s3_bucket", "s3_url", "s3_region"}

\* #[serde(default)]: a table of the file that is left out is the default one,
\* with empty strings, 0 and empty lists
from_str(toml) ==
    LET backup == {k \in DOMAIN toml : k \in {"backup_schedule",
                       "backup_incremental", "backup_volumes"}}
        cleanup == {k \in DOMAIN toml : k \in {"cleanup_schedule",
                       "cleanup_keep_min", "cleanup_keep_duration",
                       "cleanup_exclude"}}
        value(k, default) == IF k \in DOMAIN toml THEN toml[k] ELSE default
    IN  IF \/ backup # {} /\ ~(RequiredBackup \subseteq backup)
           \/ cleanup # {} /\ ~(RequiredCleanup \subseteq cleanup)
           \/ ~(RequiredS3 \subseteq DOMAIN toml)
           \/ "cleanup_keep_min" \in DOMAIN toml /\ toml["cleanup_keep_min"] < 0
        THEN {}
        ELSE {[backup_schedule |-> value("backup_schedule", <<>>),
               backup_incremental |-> value("backup_incremental", <<>>),
               backup_volumes |-> value("backup_volumes", {}),
               cleanup_schedule |-> value("cleanup_schedule", <<>>),
               cleanup_keep_min |-> value("cleanup_keep_min", 0),
               cleanup_keep_duration |-> value("cleanup_keep_duration", <<>>),
               cleanup_exclude |-> value("cleanup_exclude", {})]}

\* to_cron: Schedule::try_from takes six fields, or seven with the year
to_cron(expression) ==
    /\ Len(expression) \in {6, 7}
    /\ \A i \in 1..Len(expression) : expression[i] \in CronFields

\* the seconds between two instants of a schedule that passed to_cron
period_of(expression) == IF expression[1] = "*/2" THEN 2 ELSE 1

\* humantime::parse_duration: the seconds of a number and its unit, or nothing
parse_duration(text) ==
    IF Len(text) = 2 /\ text[2] \in {"s", "sec", "seconds"}
    THEN {n \in Seconds : ToString(n) = text[1]}
    ELSE {}

\* a slip: the schedule of the cleanup is not looked at
validate_backup_only(cfg) ==
    /\ to_cron(cfg.backup_schedule)
    /\ to_cron(cfg.backup_incremental)
    /\ parse_duration(cfg.cleanup_keep_duration) # {}

\* Config::validate
validate(cfg) ==
    /\ to_cron(cfg.backup_schedule)
    /\ to_cron(cfg.backup_incremental)
    /\ to_cron(cfg.cleanup_schedule)
    /\ parse_duration(cfg.cleanup_keep_duration) # {}

\* Config::try_from: the Config of the file, or nothing on an error. The
\* model's Config holds the periods and the seconds the code computes from
\* the strings whenever it needs them.
Config_try_from(toml) ==
    {[keep_min |-> cfg.cleanup_keep_min,
      keep_duration |-> CHOOSE n \in parse_duration(cfg.cleanup_keep_duration) : TRUE,
      exclude |-> cfg.cleanup_exclude,
      volumes |-> cfg.backup_volumes,
      schedule |-> period_of(cfg.backup_schedule),
      incremental |-> period_of(cfg.backup_incremental)] :
        cfg \in {c \in from_str(toml) : validate(c)}}

\* a file from which Config::try_from makes this Config
toml_of(cfg) ==
    [backup_schedule |-> IF cfg.schedule = 2 THEN EveryOther ELSE EverySecond,
     backup_incremental |-> IF cfg.incremental = 2 THEN EveryOther ELSE EverySecond,
     backup_volumes |-> cfg.volumes,
     cleanup_schedule |-> EverySecond,
     cleanup_keep_min |-> cfg.keep_min,
     cleanup_keep_duration |-> <<ToString(cfg.keep_duration), "s">>,
     cleanup_exclude |-> cfg.exclude,
     s3_bucket |-> "my-bucket",
     s3_url |-> "http://localhost:3900",
     s3_region |-> "garage"]

-----------------------------------------------------------------------------
(* The two loops of src/src/main.rs *)

Loops == {"backup", "cleanup"}

\* the positions at which a loop is inside the body of its tick
InCycle == {"new", "ensure", "snapshot", "refresh", "retention", "sync", "end"}

SeqOf(S) == CHOOSE o \in Orders(S) : TRUE

NoCatalog == [v \in {} |-> <<>>]

\* the configuration file, and a listing parsed on its own
input == <<file, stdout, listed>>

history == <<before, destroyed, retention, pushed, deleted, synced, unfinished>>

NoHistory ==
    /\ before' = NoCatalog
    /\ destroyed' = {}
    /\ retention' = "none"
    /\ pushed' = <<>>
    /\ deleted' = EmptyBucket
    /\ synced' = "none"
    /\ unfinished' = {}

\* no Config has been made yet
NoConfig == [keep_min |-> 0, keep_duration |-> 0, exclude |-> {},
             volumes |-> {}, schedule |-> 1, incremental |-> 1]

\* the handles main still awaits: the process is alive
Running == main \in Loops

NoDuration == [schedule |-> 0, incremental |-> 0]

\* a slip: on a tie the incremental is taken
next_snapshot_type_or_equal(schedule_duration, incremental_duration) ==
    IF incremental_duration <= schedule_duration THEN "Incremental" ELSE "Full"

\* `if incremental_duration < schedule_duration { Incremental } else { Full }`
next_snapshot_type(schedule_duration, incremental_duration) ==
    IF incremental_duration < schedule_duration THEN "Incremental" ELSE "Full"

\* schedule.after(&now).next(): a schedule that fires every period seconds
\* has its next instant strictly after the clock
after(period, clock) ==
    CHOOSE t \in (clock + 1)..(clock + period) : t % period = 0

\* `while !cancel_token.is_cancelled()` and the choice of the next instant
Top(p) ==
    /\ Running
    /\ pc[p] = "top"
    /\ \/ /\ cancelled
          /\ pc' = [pc EXCEPT ![p] = "done"]
          /\ UNCHANGED <<snapshot_type, duration>>
       \/ /\ ~cancelled
          /\ pc' = [pc EXCEPT ![p] = "sleep"]
          /\ IF p = "backup"
             THEN LET schedule_duration == after(config.schedule, now) - now
                      incremental_duration == after(config.incremental, now) - now
                  IN  /\ duration' = [schedule |-> schedule_duration,
                                      incremental |-> incremental_duration]
                      /\ snapshot_type' = next_snapshot_type(schedule_duration,
                                                             incremental_duration)
             ELSE UNCHANGED <<snapshot_type, duration>>
    /\ UNCHANGED <<local, remote, now, config, input, main, op_lock, cancelled,
                   volumes, history>>

\* select!: the sleep is over, or the token is cancelled
Sleep(p) ==
    /\ Running
    /\ pc[p] = "sleep"
    /\ \/ /\ pc' = [pc EXCEPT ![p] = "lock"]
          /\ UNCHANGED snapshot_type
       \/ /\ cancelled
          /\ pc' = [pc EXCEPT ![p] = "done"]
          /\ snapshot_type' = IF p = "backup" THEN "none" ELSE snapshot_type
    /\ duration' = IF p = "backup" THEN NoDuration ELSE duration
    /\ UNCHANGED <<local, remote, now, config, input, main, op_lock, cancelled,
                   volumes, history>>

\* a slip: the loop goes on without waiting for the mutex
LockAnyway(p) ==
    /\ Running
    /\ pc[p] = "lock"
    /\ op_lock' = p
    /\ pc' = [pc EXCEPT ![p] = "new"]
    /\ UNCHANGED <<local, remote, now, config, input, main, duration, cancelled,
                   volumes, snapshot_type, history>>

\* op_lock.lock().await
Lock(p) ==
    /\ Running
    /\ pc[p] = "lock"
    /\ op_lock = "none"
    /\ op_lock' = p
    /\ pc' = [pc EXCEPT ![p] = "new"]
    /\ UNCHANGED <<local, remote, now, config, input, main, duration, cancelled,
                   volumes, snapshot_type, history>>

\* VolumeSnapshotMap::new().await?.keep_volume_to_backup(&config)
New(p) ==
    /\ Running
    /\ pc[p] = "new"
    /\ \/ /\ volumes' = [volumes EXCEPT ![p] =
                            keep_volume_to_backup(
                                new(list_snapshots(zfs_list(local))), config)]
          /\ pc' = [pc EXCEPT ![p] =
                        IF p = "cleanup" THEN "refresh"
                        ELSE IF snapshot_type = "Incremental" THEN "ensure"
                        ELSE "snapshot"]
          /\ UNCHANGED <<op_lock, snapshot_type>>
       \/ \* a listing fails: `?` returns the error from the task, _lock is dropped
          /\ pc' = [pc EXCEPT ![p] = "failed"]
          /\ op_lock' = "none"
          /\ snapshot_type' = IF p = "backup" THEN "none" ELSE snapshot_type
          /\ UNCHANGED volumes
    /\ UNCHANGED <<local, remote, now, config, input, main, duration, cancelled,
                   history>>

\* the snapshots `zfs snapshot` makes for the volumes vs with the suffix
Created(vs, suffix) ==
    [n \in 1..Cardinality(vs) |-> Snap(SeqOf(vs)[n], suffix, now)]

\* the volumes on which `zfs snapshot` can succeed: the name is still free
Free(vs, suffix) ==
    {v \in vs : SnapshotName(v, suffix, now) \notin Names(local)}

\* ensure_snapshots_for_volumes: a full snapshot for every volume without one;
\* on an error the loop logs it and continues
Ensure ==
    /\ Running
    /\ pc["backup"] = "ensure"
    /\ LET empty == {v \in DOMAIN volumes["backup"] : volumes["backup"][v] = <<>>}
       IN  \E ok \in SUBSET Free(empty, BACKUP_SUFFIX) :
             /\ local' = local \o Created(ok, BACKUP_SUFFIX)
             /\ pc' = [pc EXCEPT !["backup"] =
                          IF ok = empty THEN "snapshot" ELSE "end"]
    /\ UNCHANGED <<remote, now, config, input, main, duration, op_lock,
                   cancelled, volumes, snapshot_type, history>>

\* a slip: the error of snapshot_volumes is logged and the tick goes on
SnapshotVolumesGoingOn ==
    /\ Running
    /\ pc["backup"] = "snapshot"
    /\ LET suffix == IF snapshot_type = "Full" THEN BACKUP_SUFFIX
                     ELSE BACKUP_SUFFIX_INCREMENTAL
           all == DOMAIN volumes["backup"]
       IN  \E ok \in SUBSET Free(all, suffix) :
             /\ local' = local \o Created(ok, suffix)
             /\ pc' = [pc EXCEPT !["backup"] = "refresh"]
    /\ UNCHANGED <<remote, now, config, input, main, duration, op_lock,
                   cancelled, volumes, snapshot_type, history>>

\* snapshot_volumes: every volume is tried; on any error the loop continues
SnapshotVolumes ==
    /\ Running
    /\ pc["backup"] = "snapshot"
    /\ LET suffix == IF snapshot_type = "Full" THEN BACKUP_SUFFIX
                     ELSE BACKUP_SUFFIX_INCREMENTAL
           all == DOMAIN volumes["backup"]
       IN  \E ok \in SUBSET Free(all, suffix) :
             /\ local' = local \o Created(ok, suffix)
             /\ pc' = [pc EXCEPT !["backup"] =
                          IF ok = all THEN "refresh" ELSE "end"]
    /\ UNCHANGED <<remote, now, config, input, main, duration, op_lock,
                   cancelled, volumes, snapshot_type, history>>

\* volumes.refresh(); on an error the loop continues
Refresh(p) ==
    /\ Running
    /\ pc[p] = "refresh"
    /\ \/ /\ volumes' = [volumes EXCEPT ![p] =
                            refresh(volumes[p], list_snapshots(zfs_list(local)))]
          /\ pc' = [pc EXCEPT ![p] = IF p = "cleanup" THEN "retention" ELSE "sync"]
       \/ /\ pc' = [pc EXCEPT ![p] = "end"]
          /\ UNCHANGED volumes
    /\ UNCHANGED <<local, remote, now, config, input, main, duration, op_lock,
                   cancelled, snapshot_type, history>>

\* a slip: the error of apply_retention_policy is logged and the tick goes on
ApplyRetentionGoingOn ==
    /\ Running
    /\ pc["cleanup"] = "retention"
    /\ LET kept == retained(volumes["cleanup"], now, config)
           victims == not_found(local, kept)
       IN  /\ before' = volumes["cleanup"]
           /\ volumes' = [volumes EXCEPT !["cleanup"] = kept]
           /\ \E k \in 0..Len(victims) :
                /\ destroyed' = Names(SubSeq(victims, 1, k))
                /\ local' = Without(local, Names(SubSeq(victims, 1, k)))
                /\ retention' = IF k = Len(victims) THEN "ok" ELSE "err"
                /\ pc' = [pc EXCEPT !["cleanup"] = "sync"]
    /\ UNCHANGED <<remote, now, config, input, main, duration, op_lock,
                   cancelled, snapshot_type, pushed, deleted, synced,
                   unfinished>>

\* volumes.apply_retention_policy(&config): the truncation of every volume,
\* then zfs::sync_snapshots, which stops at the first destroy that fails;
\* on an error the loop continues
ApplyRetention ==
    /\ Running
    /\ pc["cleanup"] = "retention"
    /\ LET kept == retained(volumes["cleanup"], now, config)
           victims == not_found(local, kept)
       IN  /\ before' = volumes["cleanup"]
           /\ volumes' = [volumes EXCEPT !["cleanup"] = kept]
           /\ \E k \in 0..Len(victims) :
                /\ destroyed' = Names(SubSeq(victims, 1, k))
                /\ local' = Without(local, Names(SubSeq(victims, 1, k)))
                /\ \/ /\ k = Len(victims)
                      /\ retention' = "ok"
                      /\ pc' = [pc EXCEPT !["cleanup"] = "sync"]
                   \/ \* the listing or the destroy of victims[k + 1] fails
                      /\ k < Len(victims) \/ victims = <<>>
                      /\ retention' = "err"
                      /\ pc' = [pc EXCEPT !["cleanup"] = "end"]
    /\ UNCHANGED <<remote, now, config, input, main, duration, op_lock,
                   cancelled, snapshot_type, pushed, deleted, synced,
                   unfinished>>

\* zfs2s3::sync_snapshots(&s3_client, &volumes); an error is logged
Sync(p) ==
    /\ Running
    /\ pc[p] = "sync"
    /\ Reconcile(p)
    /\ pc' = [pc EXCEPT ![p] = "end"]
    /\ UNCHANGED <<local, now, config, input, main, duration, op_lock,
                   cancelled, volumes, snapshot_type, before, destroyed,
                   retention>>

\* the end of the loop body: volumes and _lock are dropped
End(p) ==
    /\ Running
    /\ pc[p] = "end"
    /\ pc' = [pc EXCEPT ![p] = "top"]
    /\ op_lock' = "none"
    /\ volumes' = [volumes EXCEPT ![p] = NoCatalog]
    /\ snapshot_type' = IF p = "backup" THEN "none" ELSE snapshot_type
    /\ NoHistory
    /\ UNCHANGED <<local, remote, now, config, input, main, duration,
                   cancelled>>

\* SIGTERM or SIGINT: shutdown_signal returns and the token is cancelled
Shutdown ==
    /\ Running
    /\ ~cancelled
    /\ cancelled' = TRUE
    /\ UNCHANGED <<local, remote, now, config, input, main, duration, op_lock,
                   pc, volumes, snapshot_type, history>>

\* a second passes
Tick ==
    /\ Running
    /\ now < MaxTime
    /\ now' = now + 1
    /\ UNCHANGED <<local, remote, config, input, main, duration, op_lock,
                   cancelled, pc, volumes, snapshot_type, history>>

\* main: `for handle in handles { handle.await??; }`: the backup task is
\* awaited first; a task that returned an error makes main return it, which
\* ends the process wherever the other task is
Join ==
    /\ Running
    /\ pc[main] \in {"done", "failed"}
    /\ main' = IF pc[main] = "failed" THEN "err"
               ELSE IF main = "backup" THEN "cleanup"
               ELSE "ok"
    /\ UNCHANGED <<local, remote, now, config, input, duration, op_lock,
                   cancelled, pc, volumes, snapshot_type, history>>

\* main up to the spawning of the two tasks
Load ==
    /\ main = "load"
    /\ \/ \* the Config and the S3 client are made, the tasks are spawned
          /\ config' \in Config_try_from(file)
          /\ main' = "backup"
          /\ pc' = [p \in Loops |-> "top"]
       \/ \* `Config::try_from(&file)?` returns the error from main
          /\ Config_try_from(file) = {}
          /\ main' = "err"
          /\ UNCHANGED <<config, pc>>
       \/ \* `S3Client::new(..)?` returns an error from main
          /\ Config_try_from(file) # {}
          /\ main' = "err"
          /\ UNCHANGED <<config, pc>>
    /\ UNCHANGED <<local, remote, now, input, duration, op_lock, cancelled,
                   volumes, snapshot_type, history>>

\* both tasks are spawned, nothing is held, nothing has run
Idle ==
    /\ file = toml_of(config)
    /\ main = "backup"
    /\ duration = NoDuration
    /\ op_lock = "none"
    /\ cancelled = FALSE
    /\ pc = [p \in Loops |-> "top"]
    /\ volumes = [p \in Loops |-> NoCatalog]
    /\ snapshot_type = "none"
    /\ before = NoCatalog
    /\ destroyed = {}
    /\ retention = "none"
    /\ pushed = <<>>
    /\ deleted = EmptyBucket
    /\ synced = "none"
    /\ unfinished = {}
    /\ stdout = <<>>
    /\ listed = <<>>

\* the periods, in seconds, of backup.schedule and backup.incremental: a full
\* every other second and an incremental every second, or both every second
Crons == {[schedule |-> 2, incremental |-> 1], [schedule |-> 1, incremental |-> 1]}

\* the daemon is started on a host it has not backed up before; it backs up
\* tank/vm/a and keeps one full, and every snapshot of the running second;
\* a full is due every other second and an incremental every second
Init ==
    /\ local = <<DbManual>>
    /\ remote = [k \in {OrphanKey} |-> NoSource]
    /\ now = 0
    /\ config = [keep_min |-> 1, keep_duration |-> 0, exclude |-> {},
                 volumes |-> GlobA, schedule |-> 2, incremental |-> 1]
    /\ Idle

Next ==
    \/ \E p \in Loops : Top(p)
    \/ \E p \in Loops : Sleep(p)
    \/ \E p \in Loops : Lock(p)
    \/ \E p \in Loops : New(p)
    \/ Ensure
    \/ SnapshotVolumes
    \/ \E p \in Loops : Refresh(p)
    \/ ApplyRetention
    \/ \E p \in Loops : Sync(p)
    \/ \E p \in Loops : End(p)
    \/ Shutdown
    \/ Tick
    \/ Join

Spec == Init /\ [][Next]_vars

-----------------------------------------------------------------------------
(* The cleanup loop alone, started on a host that holds snapshots *)

Suffixes == {BACKUP_SUFFIX, BACKUP_SUFFIX_INCREMENTAL}

\* what earlier ticks may have left on a volume: up to len snapshots taken in
\* the seconds 1..age, in the order they were taken, no name twice
Histories(volume, len, age) ==
    LET shapes == UNION {[1..n -> Suffixes \X (1..age)] : n \in 0..len}
        valid == {h \in shapes :
                    /\ \A i \in 1..(Len(h) - 1) : h[i][2] <= h[i + 1][2]
                    /\ \A i, j \in 1..Len(h) : h[i] = h[j] => i = j}
    IN  {[n \in 1..Len(h) |-> Snap(volume, h[n][1], h[n][2])] : h \in valid}

\* the bucket a successful reconcile leaves for the snapshots s of the catalog
Uploaded(s) ==
    LET keys == {to_key(x.name) : x \in s}
    IN  [k \in keys |-> (CHOOSE x \in s : to_key(x.name) = k).name]

Configs ==
    [keep_min : 0..MaxKeepMin, keep_duration : 1..MaxKeepDuration,
     exclude : {ExcludeGlobs}, volumes : {GlobVm},
     schedule : {2}, incremental : {1}]

InitRet ==
    /\ \E a \in Histories(VolA, MaxLen, MaxAge),
          b \in {<<>>, <<Snap(VolB, BACKUP_SUFFIX, 1)>>},
          other \in {<<>>, <<DbManual>>} :
         /\ local = a \o b \o other
         /\ remote = Uploaded(Range(a \o b))
    /\ now = MaxAge + 1
    /\ config \in Configs
    /\ Idle

NextCleanup ==
    \/ Top("cleanup")
    \/ Sleep("cleanup")
    \/ Lock("cleanup")
    \/ New("cleanup")
    \/ Refresh("cleanup")
    \/ ApplyRetention
    \/ Sync("cleanup")
    \/ End("cleanup")

SpecRet == InitRet /\ [][NextCleanup]_vars

-----------------------------------------------------------------------------
(* The backup loop alone, started on a host that holds snapshots of which  *)
(* the bucket holds some                                                   *)

InitSync ==
    /\ \E a \in Histories(VolA, MaxHeld, MaxHeldAge),
          b \in {<<Snap(VolB, BACKUP_SUFFIX, 1)>>} :
         /\ local = a \o b
         /\ \E up \in SUBSET Range(a \o b), junk \in SUBSET {OrphanKey} :
              remote = [k \in DOMAIN Uploaded(up) \cup junk |->
                            IF k \in junk THEN NoSource ELSE Uploaded(up)[k]]
    /\ now = MaxHeldAge + 1
    /\ \E cron \in Crons :
         config = [keep_min |-> 1, keep_duration |-> 1, exclude |-> {},
                   volumes |-> GlobVm, schedule |-> cron.schedule,
                   incremental |-> cron.incremental]
    /\ Idle

NextBackup ==
    \/ Top("backup")
    \/ Sleep("backup")
    \/ Lock("backup")
    \/ New("backup")
    \/ Ensure
    \/ SnapshotVolumes
    \/ Refresh("backup")
    \/ Sync("backup")
    \/ End("backup")

SpecSync == InitSync /\ [][NextBackup]_vars

-----------------------------------------------------------------------------
(* The backup loop alone, started on a host without snapshots on which it  *)
(* backs up tank/vm/a, tank/ct/a and tank/ct/ab                            *)

InitKeys ==
    /\ local = <<>>
    /\ remote = EmptyBucket
    /\ now = 0
    /\ \E cron \in Crons :
         config = [keep_min |-> 1, keep_duration |-> 1, exclude |-> {},
                   volumes |-> GlobKeys, schedule |-> cron.schedule,
                   incremental |-> cron.incremental]
    /\ Idle

SpecKeys == InitKeys /\ [][NextBackup]_vars

-----------------------------------------------------------------------------
(* The daemon from the start of main, on a configuration file that is in   *)
(* order, one that leaves out what has a default, and broken ones          *)

InOrder ==
    toml_of([keep_min |-> 1, keep_duration |-> 0, exclude |-> {},
             volumes |-> GlobA, schedule |-> 2, incremental |-> 1])

Omit(toml, keys) == [k \in DOMAIN toml \ keys |-> toml[k]]

\* no backup.volumes and no cleanup.exclude, and schedules with a year
Short ==
    [Omit(InOrder, {"backup_volumes", "cleanup_exclude"})
        EXCEPT !["backup_schedule"] = EveryOtherOfAnyYear,
               !["cleanup_schedule"] = EveryOtherOfAnyYear]

\* a schedule that is no cron expression, a duration that is none, a key
\* or a table that is left out, a keep_min below 0
Broken ==
    { [InOrder EXCEPT !["backup_schedule"] = <<"*", "*", "0">>],
      [InOrder EXCEPT !["backup_incremental"] = <<"*", "*", "*", "*", "*">>],
      [InOrder EXCEPT !["cleanup_schedule"] = <<"*", "*", "5", "*", "*">>],
      [InOrder EXCEPT !["cleanup_schedule"] = <<"*", "*", "*", "*", "*", "x">>],
      [InOrder EXCEPT !["cleanup_keep_duration"] = <<"90", "x">>],
      [InOrder EXCEPT !["cleanup_keep_duration"] = <<"soon">>],
      [InOrder EXCEPT !["cleanup_keep_min"] = 0 - 1],
      Omit(InOrder, {"cleanup_keep_min"}),
      Omit(InOrder, {"cleanup_keep_duration"}),
      Omit(InOrder, {"cleanup_schedule"}),
      Omit(InOrder, {"backup_schedule"}),
      Omit(InOrder, {"backup_incremental"}),
      Omit(InOrder, {"s3_region"}),
      Omit(InOrder, {"backup_schedule", "backup_incremental", "backup_volumes"}),
      Omit(InOrder, {"cleanup_schedule", "cleanup_keep_min",
                     "cleanup_keep_duration", "cleanup_exclude"}) }

InitStart ==
    /\ local = <<DbManual>>
    /\ remote = [k \in {OrphanKey} |-> NoSource]
    /\ now = 0
    /\ file \in {InOrder, Short} \cup Broken
    /\ config = NoConfig
    /\ main = "load"
    /\ duration = NoDuration
    /\ op_lock = "none"
    /\ cancelled = FALSE
    /\ pc = [p \in Loops |-> "unspawned"]
    /\ volumes = [p \in Loops |-> NoCatalog]
    /\ snapshot_type = "none"
    /\ before = NoCatalog
    /\ destroyed = {}
    /\ retention = "none"
    /\ pushed = <<>>
    /\ deleted = EmptyBucket
    /\ synced = "none"
    /\ unfinished = {}
    /\ stdout = <<>>
    /\ listed = <<>>

SpecStart == InitStart /\ [][Load \/ Next]_vars

-----------------------------------------------------------------------------
(* list_snapshots alone, on lines a `zfs list` prints and on lines it does *)
(* not                                                                     *)

SnapA == SnapshotName(VolA, BACKUP_SUFFIX, 1)
SnapB == SnapshotName(VolB, BACKUP_SUFFIX_INCREMENTAL, 2)

\* lines of two fields with a number behind the name
Listed ==
    { SnapA \o <<"\t", "1">>,
      SnapB \o <<" ", " ", "2">>,
      <<" ">> \o SnapA \o <<"\t", "0", " ">>,
      SnapB \o <<"\t", "-", "1">>,
      SnapA \o <<" ", "+", "2">> }

\* the empty line, lines of one and of three fields, and lines whose second
\* field is no number, or none that is a date
Unlisted ==
    { <<>>,
      <<"\t">>,
      SnapA,
      SnapA \o <<"\t", "1", " ", "some", " ", "value">>,
      SnapB \o <<"\t", "2", "\t", "3">>,
      SnapA \o <<"\t", "invalid_timestamp">>,
      SnapB \o <<"\t", "1", ".", "5">>,
      SnapA \o <<"\t", "-">>,
      SnapA \o <<"\t", I64_OVERFLOW>>,
      SnapB \o <<"\t", I64_MAX>> }

Lines == Listed \cup Unlisted

\* list_snapshots on the lines of stdout
ListSnapshots ==
    /\ listed' = list_snapshots(stdout)
    /\ UNCHANGED <<local, remote, now, config, op_lock, cancelled, pc, volumes,
                   snapshot_type, history, file, stdout, main, duration>>

InitParse ==
    /\ local = <<>>
    /\ remote = EmptyBucket
    /\ now = 0
    /\ config = [keep_min |-> 1, keep_duration |-> 0, exclude |-> {},
                 volumes |-> GlobVm, schedule |-> 2, incremental |-> 1]
    /\ main = "backup"
    /\ duration = NoDuration
    /\ op_lock = "none"
    /\ cancelled = FALSE
    /\ pc = [p \in Loops |-> "top"]
    /\ volumes = [p \in Loops |-> NoCatalog]
    /\ snapshot_type = "none"
    /\ before = NoCatalog
    /\ destroyed = {}
    /\ retention = "none"
    /\ pushed = <<>>
    /\ deleted = EmptyBucket
    /\ synced = "none"
    /\ unfinished = {}
    /\ file = toml_of(config)
    /\ stdout \in UNION {[1..n -> Lines] : n \in 0..MaxLines}
    /\ listed = <<>>

SpecParse == InitParse /\ [][ListSnapshots]_vars

-----------------------------------------------------------------------------
(* Retention, checked on the cleanup loop (SpecRet)                        *)

\* the catalog of the cleanup loop once apply_retention_policy has truncated it
Kept == volumes["cleanup"]

Retained(v) == Range(Kept[v])

Dropped(v) == Range(before[v]) \ Range(Kept[v])

Cutoff == keep_duration(now, config)

NumFulls(snapshots) == Cardinality(FullIndices(snapshots))

Min(a, b) == IF a <= b THEN a ELSE b

\* C1: after an apply_retention_policy that returned Ok, every incremental
\* snapshot still on disk has the next-older snapshot of the original sequence
\* still on disk
C1_ChainIntegrity ==
    retention = "ok" =>
        \A v \in DOMAIN before : \A i \in 1..(Len(before[v]) - 1) :
            (before[v][i].name \in Names(local) /\ ~IsFull(before[v][i]))
                => before[v][i + 1].name \in Names(local)

\* C2: apply_retention_policy destroys only snapshots that the truncation
\* removed from a sequence of the filtered catalog
C2_DestroysOnlyDropped ==
    retention # "none" =>
        destroyed \subseteq {s.name : s \in UNION {Dropped(v) : v \in DOMAIN before}}

\* C3: after apply_retention_policy every volume still has at least
\* min(keep_min, number of fulls it had) full snapshots, in the catalog and
\* on disk
C3_MinimumFulls ==
    retention # "none" =>
        \A v \in DOMAIN before :
            /\ NumFulls(Kept[v]) >= Min(config.keep_min, NumFulls(before[v]))
            /\ Retained(v) \subseteq Range(local)

\* C3 witness: a volume with more than keep_min >= 1 fulls was truncated
C3_Witness ==
    /\ retention = "ok"
    /\ config.keep_min >= 1
    /\ \E v \in DOMAIN before :
          /\ NumFulls(before[v]) > config.keep_min
          /\ NumFulls(Kept[v]) < NumFulls(before[v])
          /\ {s.name : s \in Dropped(v)} \subseteq destroyed

\* C4 as claimed: apply_retention_policy never destroys a snapshot whose
\* creation time is not older than the cutoff
C4_RetentionByAge ==
    retention # "none" =>
        \A v \in DOMAIN before : \A s \in Range(before[v]) :
            s.creation >= Cutoff => s.name \notin destroyed

\* C4 as amended: of a volume of the filtered catalog, every full snapshot not
\* older than the cutoff is retained and not destroyed; an incremental not
\* older than the cutoff is dropped only from behind a retained full that
\* ends the retained sequence
C4_FullsByAge ==
    retention # "none" =>
        \A v \in DOMAIN before : \A s \in Range(before[v]) :
            s.creation >= Cutoff =>
                /\ IsFull(s) => (s \in Retained(v) /\ s.name \notin destroyed
                                    /\ s \in Range(local))
                /\ s \in Dropped(v) =>
                        /\ Kept[v] # <<>>
                        /\ IsFull(Kept[v][Len(Kept[v])])

\* C4 witness: retention destroyed a snapshot of a volume and kept a full of
\* that volume that is not older than the cutoff
C4_Witness ==
    /\ retention = "ok"
    /\ \E v \in DOMAIN before :
          /\ \E s \in Dropped(v) : s.name \in destroyed
          /\ \E s \in Retained(v) : IsFull(s) /\ s.creation >= Cutoff
          /\ \E s \in Dropped(v) : ~IsFull(s) /\ s.creation >= Cutoff

\* C5: a snapshot whose name matches a cleanup.exclude glob is never destroyed
\* by the retention step
C5_ExcludedNeverDestroyed ==
    \A name \in destroyed :
        ~\E pattern \in config.exclude : glob_match(pattern, name)

\* every snapshot of the sequence is older than the cutoff
AllOld(snapshots) == \A s \in Range(snapshots) : s.creation < Cutoff

\* C19: a volume with at most keep_min full snapshots comes out of
\* apply_retention_policy with its sequence unchanged and none of its
\* snapshots destroyed, whatever their age
C19_NoOpBelowKeepMin ==
    retention # "none" =>
        \A v \in DOMAIN before :
            NumFulls(before[v]) <= config.keep_min =>
                /\ Kept[v] = before[v]
                /\ Names(before[v]) \cap destroyed = {}
                /\ Range(before[v]) \subseteq Range(local)

\* C19 witness: retention ran on a volume that holds exactly keep_min fulls
\* and an incremental, all of them older than the cutoff
C19_Witness ==
    /\ retention = "ok"
    /\ config.keep_min >= 1
    /\ \E v \in DOMAIN before :
          /\ NumFulls(before[v]) = config.keep_min
          /\ Len(before[v]) > NumFulls(before[v])
          /\ AllOld(before[v])
          /\ Kept[v] = before[v]

\* C20: with keep_min = 0 a volume whose snapshots are all older than the
\* cutoff comes out of apply_retention_policy with an empty sequence, and
\* after an Ok with none of its snapshots on disk
C20_AllOldAllDeleted ==
    (retention # "none" /\ config.keep_min = 0) =>
        \A v \in DOMAIN before :
            AllOld(before[v]) =>
                /\ Kept[v] = <<>>
                /\ retention = "ok" => Names(before[v]) \cap Names(local) = {}

\* newest first: no snapshot is older than the one behind it
IsSortedDesc(snapshots) ==
    \A i \in 1..(Len(snapshots) - 1) :
        snapshots[i].creation >= snapshots[i + 1].creation

\* C21: every sequence of a loop's catalog, as built, filtered, refreshed or
\* truncated by retention, is sorted by creation time descending
C21_CatalogSorted ==
    \A p \in Loops : \A v \in DOMAIN volumes[p] : IsSortedDesc(volumes[p][v])

\* C21 witness: retention truncated a sequence and left two snapshots of
\* different creation times, which the listing printed oldest first
C21_Witness ==
    /\ retention = "ok"
    /\ \E v \in DOMAIN before :
          /\ Len(Kept[v]) >= 2
          /\ Len(Kept[v]) < Len(before[v])
          /\ Kept[v][1].creation > Kept[v][2].creation
          /\ \E i, j \in 1..Len(local) :
                i < j /\ local[i] = Kept[v][2] /\ local[j] = Kept[v][1]

-----------------------------------------------------------------------------
(* The reconciler, checked on the backup loop (SpecSync)                   *)

\* the loop whose sync_snapshots call has just returned
Synced(p) == pc[p] = "end" /\ synced # "none"

\* the keys s3.list_objects returned to Phase B: Phase B only deletes
ListedByPhaseB == DOMAIN remote \cup DOMAIN deleted

\* C6: after a sync_snapshots that returned Ok the remote keys are exactly the
\* keys derived from the snapshots of the catalog
C6_RemoteEqualsCatalog ==
    \A p \in Loops :
        (Synced(p) /\ synced = "ok") => DOMAIN remote = CatalogKeys(volumes[p])

\* C6 witness: a successful reconcile that uploaded and deleted
C6_Witness ==
    /\ Synced("backup")
    /\ synced = "ok"
    /\ pushed # <<>>
    /\ DOMAIN deleted # {}
    /\ DOMAIN remote = CatalogKeys(volumes["backup"])

\* C7: whenever Phase A uploads an incremental and its predecessor in one run,
\* the predecessor is uploaded first
C7_PredecessorFirst ==
    \A i, j \in 1..Len(pushed) :
        (pushed[j].mode = "incremental" /\ pushed[i].to.name = pushed[j].from)
            => i < j

\* C9: Phase B never deletes a key that some catalog snapshot derives, and a
\* Phase B that returned Ok deleted every listed key that none derives
C9_DeletesExactlyOrphans ==
    \A p \in Loops :
        Synced(p) =>
            /\ DOMAIN deleted \cap CatalogKeys(volumes[p]) = {}
            /\ synced = "ok" =>
                  DOMAIN deleted = ListedByPhaseB \ CatalogKeys(volumes[p])

\* C9 witness: Phase B returned Ok, deleted a key and left a key of the catalog
C9_Witness ==
    /\ Synced("backup")
    /\ synced = "ok"
    /\ OrphanKey \in DOMAIN deleted
    /\ \E k \in DOMAIN remote : \A n \in 1..Len(pushed) : pushed[n].key # k

\* the last snapshot of a sequence, the one with nothing older behind it
Oldest(snapshots) == snapshots[Len(snapshots)]

\* C11: every incremental that Phase A uploaded was streamed from the snapshot
\* at the next position of its volume's sequence; an incremental at the last
\* position is never uploaded, and when its key is missing sync_snapshots
\* fails in Phase A
C11_IncrementalBase ==
    \A p \in Loops :
        Synced(p) =>
            LET map == volumes[p] IN
            /\ \A n \in 1..Len(pushed) :
                  /\ pushed[n].mode = "incremental" <=> ~IsFull(pushed[n].to)
                  /\ pushed[n].mode = "incremental" =>
                        \E v \in DOMAIN map : \E i \in 1..(Len(map[v]) - 1) :
                            /\ map[v][i] = pushed[n].to
                            /\ map[v][i + 1].name = pushed[n].from
            /\ \A v \in DOMAIN map :
                  (map[v] # <<>> /\ ~IsFull(Oldest(map[v]))) =>
                      /\ \A n \in 1..Len(pushed) : pushed[n].to # Oldest(map[v])
                      /\ to_key(Oldest(map[v]).name) \notin DOMAIN remote
                            => synced = "errA"

\* C11 witness: one run uploaded an incremental from a full behind it and
\* failed on an incremental with nothing behind it
C11_Witness ==
    /\ Synced("backup")
    /\ synced = "errA"
    /\ \E n \in 1..Len(pushed) :
          /\ pushed[n].mode = "incremental"
          /\ ~is_incremental_snapshot(pushed[n].from)
    /\ \E v \in DOMAIN volumes["backup"] :
          /\ Len(volumes["backup"][v]) >= 3
          /\ ~IsFull(Oldest(volumes["backup"][v]))
          /\ to_key(Oldest(volumes["backup"][v]).name) \notin DOMAIN remote

\* every upload a sync_snapshots call on this catalog and bucket sets out to do
Uploads(map, bucket) ==
    UNION {Range(missing(map, order, DOMAIN bucket)) : order \in Orders(DOMAIN map)}

\* C12: right after a sync_snapshots that returned Ok, a second call on the
\* same catalog and bucket finds nothing to upload and nothing to delete
C12_Idempotent ==
    \A p \in Loops :
        (Synced(p) /\ synced = "ok") =>
            /\ Uploads(volumes[p], remote) = {}
            /\ orphans(remote, volumes[p]) = {}

\* C12 witness: the first run returned Ok after two uploads and a delete
C12_Witness ==
    /\ Synced("backup")
    /\ synced = "ok"
    /\ Len(pushed) >= 2
    /\ OrphanKey \in DOMAIN deleted
    /\ Uploads(volumes["backup"], remote) = {}

-----------------------------------------------------------------------------
(* The daemon (Spec)                                                       *)

\* C8: a backup cycle and a cleanup cycle are never both in progress, and a
\* loop is inside its cycle only while it holds the operation mutex
C8_MutualExclusion ==
    /\ ~(pc["backup"] \in InCycle /\ pc["cleanup"] \in InCycle)
    /\ \A p \in Loops : pc[p] \in InCycle => op_lock = p

\* C8 witness: the cleanup tick fired while the backup cycle is under way
C8_Witness ==
    /\ pc["backup"] = "sync"
    /\ pc["cleanup"] = "lock"
    /\ op_lock = "backup"

\* C10: a remote object is deleted only when the snapshot it was streamed from
\* is no longer on disk; a cleanup tick deletes remote objects only after
\* apply_retention_policy returned Ok, and after a failed destroy it neither
\* uploads nor deletes
C10_DeletionFollowsLocal ==
    /\ \A k \in DOMAIN deleted : deleted[k] \notin Names(local)
    /\ retention = "err" =>
          /\ pc["cleanup"] = "end"
          /\ synced = "none"
          /\ deleted = EmptyBucket
          /\ pushed = <<>>
    /\ (pc["cleanup"] = "end" /\ synced # "none") => retention = "ok"

\* C10 witness: a cleanup tick destroyed a snapshot and then deleted its object
C10_Witness ==
    /\ pc["cleanup"] = "end"
    /\ retention = "ok"
    /\ \E k \in DOMAIN deleted : deleted[k] \in destroyed

\* C13: a loop leaves the body of its tick only to go back to the top of its
\* loop, with the operation mutex released; no loop task returns an error
\* and main does not return one
C13_TickFailureGoesOn ==
    [][/\ \A p \in Loops :
            (pc[p] \in InCycle /\ pc'[p] \notin InCycle)
                => (pc'[p] = "top" /\ op_lock' = "none")
       /\ main' # "err"]_vars

\* C14: once the token is cancelled no loop takes the operation mutex
C14_NoCycleAfterShutdown ==
    [][cancelled => \A p \in Loops : ~(pc[p] = "lock" /\ pc'[p] = "new")]_vars

\* C15: when the process has ended after a shutdown signal, main returned Ok
\* and each loop left through its `while` or its `select!`, no cycle cut short
C15_ShutdownEndsCleanly ==
    (cancelled /\ ~Running) =>
        /\ main = "ok"
        /\ \A p \in Loops : pc[p] = "done"

-----------------------------------------------------------------------------
(* The backup loop (SpecSync)                                              *)

\* C16: while the backup loop sleeps, the mode of its tick is Full when both
\* schedules are due at the same instant, and Incremental exactly when the
\* incremental schedule is due strictly earlier
C16_TieFullWins ==
    pc["backup"] = "sleep" =>
        /\ duration.schedule = duration.incremental => snapshot_type = "Full"
        /\ snapshot_type = "Incremental"
              <=> duration.incremental < duration.schedule

\* C16 witness: both schedules are due at the same instant
C16_Witness ==
    /\ pc["backup"] = "sleep"
    /\ duration.schedule = duration.incremental
    /\ duration.schedule >= 1
    /\ snapshot_type = "Full"

\* C17: in the catalog an incremental tick hands to sync_snapshots, the
\* incremental snapshot the tick created on a volume has a snapshot of that
\* volume at the next position, its predecessor
C17_BootstrapOrdering ==
    (pc["backup"] = "sync" /\ snapshot_type = "Incremental") =>
        \A v \in DOMAIN volumes["backup"] :
            LET snapshots == volumes["backup"][v] IN
            \A i \in 1..Len(snapshots) :
                snapshots[i].name = SnapshotName(v, BACKUP_SUFFIX_INCREMENTAL, now)
                    => i < Len(snapshots)

\* the suffix of the snapshots the step the backup loop is at creates
Suffix ==
    IF pc["backup"] = "ensure" \/ snapshot_type = "Full" THEN BACKUP_SUFFIX
    ELSE BACKUP_SUFFIX_INCREMENTAL

\* the volumes the step the backup loop is at sets out to snapshot
Asked ==
    IF pc["backup"] = "ensure"
    THEN {v \in DOMAIN volumes["backup"] : volumes["backup"][v] = <<>>}
    ELSE DOMAIN volumes["backup"]

\* C18: when the bootstrap or snapshot_volumes leaves a volume without its
\* new snapshot, the tick goes to its end with the bucket untouched and no
\* reconcile run, and from there only the end of the tick follows
C18_SnapshotFailureSkipsSync ==
    [][/\ (pc["backup"] \in {"ensure", "snapshot"}
            /\ pc'["backup"] # pc["backup"]
            /\ \E v \in Asked : SnapshotName(v, Suffix, now) \notin Names(local'))
          => /\ pc'["backup"] = "end"
             /\ remote' = remote
             /\ synced' = "none" /\ pushed' = <<>> /\ deleted' = EmptyBucket
       /\ (pc["backup"] = "end" /\ synced = "none")
          => /\ pc'["backup"] \in {"end", "top"}
             /\ remote' = remote]_vars

\* C18 witness: snapshot_volumes failed on one volume and made the snapshot
\* of another, and the tick is at its end without a reconcile
C18_Witness ==
    /\ pc["backup"] = "end"
    /\ synced = "none"
    /\ snapshot_type = "Full"
    /\ SnapshotName(VolA, BACKUP_SUFFIX, now) \notin Names(local)
    /\ SnapshotName(VolB, BACKUP_SUFFIX, now) \in Names(local)
    /\ remote # EmptyBucket

-----------------------------------------------------------------------------
(* The catalog and the keys (SpecKeys)                                     *)

\* the part of a name in front of its first "@"
VolumeOf(name) ==
    LET at == {i \in 1..Len(name) : name[i] = SUFFIX_SEPARATOR}
    IN  IF at = {} THEN name
        ELSE SubSeq(name, 1, (CHOOSE i \in at : \A j \in at : i <= j) - 1)

\* every snapshot of every sequence belongs to the volume of the sequence
Member(map) ==
    \A v \in DOMAIN map : \A s \in Range(map[v]) :
        /\ StartsWith(s.name, v \o <<SUFFIX_SEPARATOR>>)
        /\ VolumeOf(s.name) = v

\* C22: in the catalog built from the listings, in the filtered one and in
\* each loop's refreshed one, every snapshot of a sequence has the name of
\* its volume in front of its "@"; every listed volume is in the built
\* catalog, one without a snapshot with an empty sequence, and the filter
\* and the refresh keep the sequences of the volumes they keep
C22_CatalogMembership ==
    LET built == new(local)
        filtered == keep_volume_to_backup(built, config)
    IN  /\ DOMAIN built = list_volumes
        /\ DOMAIN filtered \subseteq DOMAIN built
        /\ Member(built)
        /\ Member(filtered)
        /\ \A v \in list_volumes :
              (\A s \in Range(local) : VolumeOf(s.name) # v) => built[v] = <<>>
        /\ \A p \in Loops :
              /\ Member(volumes[p])
              /\ pc[p] \in InCycle \ {"new"} => DOMAIN volumes[p] = DOMAIN filtered

\* C22 witness: the refreshed catalog holds snapshots of tank/ct/a and of
\* tank/ct/ab, and the built one holds tank/db without any
C22_Witness ==
    /\ pc["backup"] = "sync"
    /\ volumes["backup"][VolCtA] # <<>>
    /\ volumes["backup"][VolCtAb] # <<>>
    /\ new(local)[VolDb] = <<>>

\* C30: two snapshots of a loop's catalog with different names have
\* different keys, no two uploads of one reconcile write the same key, and
\* a snapshot whose key the bucket holds at the reconcile is the one that
\* was uploaded to that key
C30_KeysUnique ==
    /\ \A p \in Loops : \A s, t \in CatalogNames(volumes[p]) :
          s # t => to_key(s) # to_key(t)
    /\ \A i, j \in 1..Len(pushed) : i # j => pushed[i].key # pushed[j].key
    /\ \A p \in Loops : pc[p] = "sync" =>
          \A s \in CatalogNames(volumes[p]) :
              to_key(s) \in DOMAIN remote => remote[to_key(s)] = s

\* key is what stands in name behind a prefix that is empty or ends in "/",
\* and holds no "/" itself
IsLastSegment(key, name) ==
    /\ ~Contains(key, PATH_SEPARATOR)
    /\ \E n \in 0..Len(name) :
          /\ name = SubSeq(name, 1, n) \o key
          /\ n > 0 => name[n] = PATH_SEPARATOR

\* C23: the key of every snapshot of the host, and the key every upload
\* wrote to, is the part of the snapshot's name behind its last "/" and
\* holds no "/"; a name without "/", as the keys of the bucket are, is its
\* own key
C23_KeyDerivation ==
    /\ \A name \in Names(local) : IsLastSegment(to_key(name), name)
    /\ \A i \in 1..Len(pushed) : IsLastSegment(pushed[i].key, pushed[i].to.name)
    /\ \A key \in DOMAIN remote : to_key(key) = key

\* C23 witness: a reconcile uploaded a snapshot of a dataset two levels
\* below the pool, and the bucket holds its key
C23_Witness ==
    /\ synced = "ok"
    /\ \E i \in 1..Len(pushed) :
          /\ Cardinality({n \in 1..Len(pushed[i].to.name) :
                              pushed[i].to.name[n] = PATH_SEPARATOR}) = 2
          /\ pushed[i].key \in DOMAIN remote

\* C24: an upload that fails leaves no multipart upload behind, and the key
\* it was writing is not in the bucket
C24_UploadAtomicity ==
    /\ unfinished = {}
    /\ \A key \in unfinished : key \notin DOMAIN remote

\* C27: a reconcile that fails in Phase A deletes no key and leaves every
\* key of the bucket in place; what it uploaded is, without a repeat, the
\* front of what one pass over the catalog finds missing, and is in the
\* bucket; the snapshot behind that front, the one that failed, and every
\* later one are not among the uploads
C27_AbortOnFirstFailure ==
    [][\A p \in Loops :
          (pc[p] = "sync" /\ pc'[p] = "end" /\ synced' = "errA") =>
              LET map == volumes[p] IN
              /\ deleted' = EmptyBucket
              /\ DOMAIN remote \subseteq DOMAIN remote'
              /\ \A n \in 1..Len(pushed') : pushed'[n].key \in DOMAIN remote'
              /\ \A i, j \in 1..Len(pushed') :
                    i # j => pushed'[i].to # pushed'[j].to
              /\ \E order \in Orders(DOMAIN map) :
                    LET todo == missing(map, order, DOMAIN remote) IN
                    /\ Len(pushed') <= Len(todo)
                    /\ \A n \in 1..Len(pushed') :
                          pushed'[n].to = map[todo[n].volume][todo[n].i + 1]
                    /\ Len(pushed') < Len(todo) \/ pushed' = <<>>
      ]_vars

\* C27 witness: a reconcile failed after an upload, with a snapshot still
\* to upload and a key in the bucket that Phase B would have deleted
C27_Witness ==
    /\ Synced("backup")
    /\ synced = "errA"
    /\ pushed # <<>>
    /\ CatalogKeys(volumes["backup"]) \ DOMAIN remote # {}
    /\ orphans(remote, volumes["backup"]) # {}

\* C29: every upload of a reconcile that went out as a full stream is of a
\* snapshot whose name lacks the incremental marker, and every one that went
\* out as an incremental stream is of a snapshot whose name holds it and
\* has a source; on every slice of the catalog the upload of the other kind
\* returns its error before it streams
C29_UploadKindGuard ==
    /\ \A n \in 1..Len(pushed) :
          /\ pushed[n].mode = "full" =>
                /\ ~Contains(pushed[n].to.name, BACKUP_SUFFIX_INCREMENTAL)
                /\ pushed[n].from = NoSource
          /\ pushed[n].mode = "incremental" =>
                /\ Contains(pushed[n].to.name, BACKUP_SUFFIX_INCREMENTAL)
                /\ pushed[n].from # NoSource
    /\ \A p \in Loops : \A v \in DOMAIN volumes[p] :
          \A i \in 0..(Len(volumes[p][v]) - 1) :
              LET snapshots == slice_from(volumes[p], [volume |-> v, i |-> i])
              IN  IF Contains(snapshots[1].name, BACKUP_SUFFIX_INCREMENTAL)
                  THEN full_refused(snapshots)
                  ELSE incremental_refused(snapshots)

\* C29 witness: one reconcile sent a full stream and an incremental stream
C29_Witness ==
    /\ Synced("backup")
    /\ \E n \in 1..Len(pushed) : pushed[n].mode = "full"
    /\ \E n \in 1..Len(pushed) : pushed[n].mode = "incremental"

-----------------------------------------------------------------------------
(* The operation mutex (Spec)                                              *)

\* C28: the operation mutex is held by a loop only while the loop is inside
\* its cycle, so it is free once a cycle has ended or was given up and while
\* a loop sleeps; and a loop whose tick has fired and that waits for the
\* mutex is not left waiting: the process is alive for it to go on
C28_LeaseReleaseAndProgress ==
    /\ \A p \in Loops : op_lock = p => pc[p] \in InCycle
    /\ \A p \in Loops : pc[p] = "lock" => Running

-----------------------------------------------------------------------------
(* The parsing of the listing (SpecParse)                                  *)

\* the places of a line at which a field begins, and at which one ends
Begins(line) ==
    {i \in 1..Len(line) :
        line[i] \notin WHITESPACE /\ (i = 1 \/ line[i - 1] \in WHITESPACE)}
Ends(line) ==
    {i \in 1..Len(line) :
        line[i] \notin WHITESPACE
            /\ (i = Len(line) \/ line[i + 1] \in WHITESPACE)}

\* the k-th field of a line that has one
Field(line, k) ==
    LET b == CHOOSE i \in Begins(line) :
                 Cardinality({j \in Begins(line) : j <= i}) = k
        e == CHOOSE i \in Ends(line) :
                 Cardinality({j \in Ends(line) : j <= i}) = k
    IN  SubSeq(line, b, e)

\* the number a field writes: digits, or a sign and digits
Written(field) ==
    {n \in Seconds \cup {0 - m : m \in Seconds} :
        \/ n >= 0 /\ field \in {<<ToString(n)>>, <<"+", ToString(n)>>}
        \/ n <= 0 /\ field = <<"-", ToString(0 - n)>>}

\* the line has two fields and the second writes a number
Wellformed(line) ==
    /\ Cardinality(Begins(line)) = 2
    /\ Written(Field(line, 2)) # {}

\* C25: try_from succeeds on a line exactly when the line has two fields
\* between white space and the second writes a signed number of seconds;
\* the snapshot then has the first field as its name and that number as
\* its creation time; list_snapshots returns, in the order of the lines,
\* the snapshots of the lines that succeed, and nothing for the others
C25_LineParsing ==
    [][LET good == {i \in 1..Len(stdout) : Wellformed(stdout[i])}
           rank(i) == Cardinality({j \in good : j <= i})
       IN  /\ \A i \in 1..Len(stdout) :
                 /\ try_from(stdout[i]) # {} <=> i \in good
                 /\ i \in good =>
                       try_from(stdout[i]) =
                           {[name |-> Field(stdout[i], 1),
                             creation |-> CHOOSE n \in Written(Field(stdout[i], 2)) : TRUE]}
           /\ Len(listed') = Cardinality(good)
           /\ \A i \in good : {listed'[rank(i)]} = try_from(stdout[i])
      ]_vars

\* C25 witness: of two lines the first, with three fields, was dropped and
\* the second, with spaces between its two fields, was kept
C25_Witness ==
    /\ Len(stdout) = 2
    /\ Cardinality(Begins(stdout[1])) = 3
    /\ stdout[2] = SnapB \o <<" ", " ", "2">>
    /\ listed = <<[name |-> SnapB, creation |-> 2]>>

-----------------------------------------------------------------------------
(* The start of main (SpecStart)                                           *)

\* C26: with a configuration file that has a schedule that is no cron
\* expression, a keep_duration that is no duration or a required key left
\* out, the one step the process takes is to return an error from main: no
\* task is spawned, and the snapshots, the bucket, the mutex and the record
\* of what the loops did stay as they were
C26_ConfigErrorsFatal ==
    [][(file \in Broken) =>
          /\ main = "load"
          /\ main' = "err"
          /\ \A p \in Loops : pc'[p] = "unspawned"
          /\ UNCHANGED <<local, remote, op_lock, volumes, history>>
      ]_vars

\* C26 witness: main returned an error on a file whose cleanup schedule has
\* five fields, and no task was spawned
C26_Witness ==
    /\ file = [InOrder EXCEPT !["cleanup_schedule"] = <<"*", "*", "5", "*", "*">>]
    /\ main = "err"
    /\ \A p \in Loops : pc[p] = "unspawned"

====
